---- MODULE Spec2Model ----
(***************************************************************************)
(* Live-captions page (src/app.js): the session controller built around    *)
(* one SpeechRecognition instance.  The model follows the handlers of      *)
(* app.js one action per handler; the recognition engine, the microphone   *)
(* promise, the retry timers, the visibility signal and the user are the   *)
(* environment that invokes them.                                          *)
(***************************************************************************)
EXTENDS Integers, Sequences, FiniteSets, TLC

\* ---------------------------------------------------------------- bounds
MaxTimers == 1      \* retry timers (setTimeout, line 50) pending at once
MaxPending == 2     \* startCaptions() calls awaiting getUserMedia at once
MaxStreams == 2     \* microphone streams requested or live at once
MaxTranscripts == 1 \* entries of the transcript
MaxResults == 2     \* entries of event.results in one result event
MaxFailures == 6    \* consecutive failures the backoff delays are listed for

\* ------------------------------------------------------------- constants
\* values of the language <select> (langSelect.value, lines 8, 33, 82)
Langs == {"en-US", "es-ES"}

\* error codes the engine reports (SpeechRecognitionErrorEvent.error), one of
\* each class: in the retry list of line 49, documented as restartable but
\* not in that list, and permission
ErrorKinds == {"network", "aborted", "not-allowed"}

\* app.js line 50: the delay of the retry timer, in ms
RetryDelay == 500

\* the documented backoff (app.js lines 440-441):
\* Math.min(500 * restartAttempts, 3000) and Math.min(1000 * restartAttempts, 5000)
EndBaseDelay == 500
EndDelayCap == 3000
ErrorBaseDelay == 1000
ErrorDelayCap == 5000

Min2(a, b) == IF a < b THEN a ELSE b

BackoffDelay(base, cap, failures) == Min2(base * (failures + 1), cap)

\* app.js line 49: the list the error handler retries on
RetryErrors == {"network", "no-speech", "audio-capture"}

\* status texts are written with "..." for the ellipsis character of app.js
MicDeniedMsg == "Microphone permission denied or unavailable."
StartFailedMsg == "Failed to start recognition."

ErrorMsg(kind) == "Error: " \o kind

\* ----------------------------------------------------------------- state
VARIABLES
  recognition,    \* identity of the SpeechRecognition instance (line 23)
  lang,           \* recognition.lang (= langSelect.value after setLang)
  mediaStream,    \* TRUE iff mediaStream # null (line 26)
  liveStreams,    \* microphone streams whose tracks are not stopped
  pendingMic,     \* startCaptions() calls suspended at the await, line 105
  listening,      \* line 27
  autoRestart,    \* autoRestartCb.checked
  hidden,         \* document.hidden
  pausedByHide,   \* the hide branch (line 154) ran and the page is still hidden
  startDisabled,  \* startBtn.disabled
  stopDisabled,   \* stopBtn.disabled
  status,         \* statusEl.textContent
  errorText,      \* errorEl.textContent
  phase,          \* engine lifecycle: idle, starting, running, stopping, errored
  stopBy,         \* which handler's recognition.stop() put the engine in stopping
  timers,         \* retry timers armed at line 50 and not yet fired
  transcripts,    \* line 28 (the time field of an entry is left out)
  interimText,    \* interimEl.textContent
  finalText,      \* finalEl.textContent
  lastOp          \* what the handler that ran last did

vars == <<recognition, lang, mediaStream, liveStreams, pendingMic, listening,
          autoRestart, hidden, pausedByHide, startDisabled, stopDisabled,
          status, errorText, phase, stopBy, timers, transcripts, interimText,
          finalText, lastOp>>

\* --------------------------------------------------------- engine calls
\* recognition.start(): throws InvalidStateError unless the engine is idle
StartThrows(ph) == ph # "idle"

AfterStart(ph) == IF ph = "idle" THEN "starting" ELSE ph

\* recognition.stop(): asks a starting/running engine to end; otherwise nothing
StopActs(ph) == ph \in {"starting", "running"}

AfterStop(ph) == IF StopActs(ph) THEN "stopping" ELSE ph

\* ------------------------------------------------------ handler decisions
\* line 40
OnEndStatus(l) == IF l THEN "Restarting..." ELSE "Stopped"

\* line 41
OnEndRestartInverted(l, a) == l /\ ~a

OnEndRestart(l, a) == l /\ a

\* line 49
OnErrorRetryNoListeningCheck(l, a, kind) == a /\ kind \in RetryErrors

OnErrorRetry(l, a, kind) == l /\ a /\ kind \in RetryErrors

\* ------------------------------------------------------- result events
\* texts are sequences of one-character strings

\* the transcripts the engine reports (r[0].transcript): blank, and padded
RawTexts == {<<" ">>, <<" ", "a", " ">>}

\* String.prototype.trim, lines 60 and 68
RECURSIVE TrimLeft(_)
TrimLeft(t) == IF t # <<>> /\ Head(t) = " " THEN TrimLeft(Tail(t)) ELSE t

RECURSIVE TrimRight(_)
TrimRight(t) ==
  IF t # <<>> /\ t[Len(t)] = " " THEN TrimRight(SubSeq(t, 1, Len(t) - 1)) ELSE t

Trim(t) == TrimRight(TrimLeft(t))

\* the loop of lines 58-66 from JavaScript index i (results[i] is rs[i + 1])
RECURSIVE CollectNoSeparator(_, _, _, _)
CollectNoSeparator(rs, i, latestFinal, interim) ==
  IF i >= Len(rs) THEN [final |-> latestFinal, interim |-> interim]
  ELSE LET r == rs[i + 1]
           txt == Trim(r.transcript)
       IN IF r.isFinal
          THEN CollectNoSeparator(rs, i + 1, latestFinal \o txt, interim)
          ELSE CollectNoSeparator(rs, i + 1, latestFinal,
                                  interim \o txt \o <<" ">>)

RECURSIVE Collect(_, _, _, _)
Collect(rs, i, latestFinal, interim) ==
  IF i >= Len(rs) THEN [final |-> latestFinal, interim |-> interim]
  ELSE LET r == rs[i + 1]
           txt == Trim(r.transcript)
       IN IF r.isFinal
          THEN Collect(rs, i + 1,
                       latestFinal
                         \o (IF latestFinal # <<>> THEN <<" ">> ELSE <<>>)
                         \o txt,
                       interim)
          ELSE Collect(rs, i + 1, latestFinal, interim \o txt \o <<" ">>)

\* the trimmed texts of the entries from JavaScript index i whose isFinal
\* is f, in order (lines 59-60)
RECURSIVE TextsOf(_, _, _)
TextsOf(rs, i, f) ==
  IF i >= Len(rs) THEN <<>>
  ELSE LET rest == TextsOf(rs, i + 1, f)
       IN IF rs[i + 1].isFinal = f
          THEN <<Trim(rs[i + 1].transcript)>> \o rest
          ELSE rest

\* line 70: a non-empty string is truthy
AppendsAlways(latestFinal) == TRUE

Appends(latestFinal) == latestFinal # <<>>

\* lines 68 and 77: the interim line at the end of the handler
InterimShownKept(c) == Trim(c.interim)

InterimShown(c) == IF Appends(c.final) THEN <<>> ELSE Trim(c.interim)

ResultEntries == [transcript : RawTexts, isFinal : BOOLEAN]

\* every result event of at most MaxResults entries, with its resultIndex
ResultEvents ==
  UNION {[results : [1..n -> ResultEntries], resultIndex : 0..(n - 1)] :
           n \in 1..MaxResults}

\* the events the session model draws from: a final, a blank final, and a
\* final together with an interim (ResultSpec draws from ResultEvents)
LeanEvents ==
  LET fin == [transcript |-> <<" ", "a", " ">>, isFinal |-> TRUE]
      int == [transcript |-> <<" ", "a", " ">>, isFinal |-> FALSE]
      blank == [transcript |-> <<" ">>, isFinal |-> TRUE]
  IN {[results |-> <<fin>>, resultIndex |-> 0],
      [results |-> <<blank>>, resultIndex |-> 0],
      [results |-> <<fin, int>>, resultIndex |-> 0]}

\* record of one handler run
\* (event is the result event handled, where a specification records it)
Op(op, kind, l, issued, threw, armed, cause, paused, delay, appended, hadInterim, event) ==
  [op |-> op, kind |-> kind, listeningAtEntry |-> l, startIssued |-> issued,
   startThrew |-> threw, timerArmed |-> armed,
   endCause |-> cause, wasPausedByHide |-> paused, delay |-> delay,
   appended |-> appended, hadInterim |-> hadInterim, event |-> event]

\* ------------------------------------------------------------------ Init
Init ==
  /\ recognition = 1
  /\ lang \in Langs
  /\ mediaStream = FALSE
  /\ liveStreams = 0
  /\ pendingMic = 0
  /\ listening = FALSE
  /\ autoRestart \in BOOLEAN
  /\ hidden = FALSE
  /\ pausedByHide = FALSE
  /\ startDisabled = FALSE
  /\ stopDisabled \in BOOLEAN
  /\ status = "Idle"
  /\ errorText = ""
  /\ phase = "idle"
  /\ stopBy = "none"
  /\ timers = 0
  /\ transcripts = <<>>
  /\ interimText = <<>>
  /\ finalText = <<>>
  /\ lastOp = Op("init", "none", FALSE, FALSE, FALSE, FALSE, "none", FALSE, 0, FALSE, FALSE, "none")

\* ------------------------------------------------------- engine events
\* recognition.onstart, lines 35-37
EngineStarted ==
  /\ phase = "starting"
  /\ phase' = "running"
  /\ status' = "Listening..."
  /\ lastOp' = Op("onstart", "none", listening, FALSE, FALSE, FALSE, "none", FALSE, 0, FALSE, FALSE, "none")
  /\ UNCHANGED <<recognition, lang, mediaStream, liveStreams, pendingMic,
                 listening, autoRestart, hidden, pausedByHide, startDisabled,
                 stopDisabled, errorText, stopBy, timers,
                 transcripts, interimText, finalText>>

\* recognition.onend, lines 39-44; the engine is idle when the handler runs
EngineEnded ==
  /\ phase \in {"running", "stopping", "errored"}
  /\ status' = OnEndStatus(listening)
  /\ LET restart == OnEndRestart(listening, autoRestart)
         cause == CASE phase = "stopping" -> stopBy
                    [] phase = "errored" -> "error"
                    [] OTHER -> "natural"
     IN /\ phase' = IF restart THEN AfterStart("idle") ELSE "idle"
        /\ lastOp' = Op("onend", "none", listening, restart,
                        restart /\ StartThrows("idle"), FALSE, cause,
                        pausedByHide, 0, FALSE, FALSE, "none")
  /\ stopBy' = "none"
  /\ UNCHANGED <<recognition, lang, mediaStream, liveStreams, pendingMic,
                 listening, autoRestart, hidden, pausedByHide, startDisabled,
                 stopDisabled, errorText, timers,
                 transcripts, interimText, finalText>>

\* recognition.onerror, lines 46-52; the engine's 'end' event follows
EngineError(kind) ==
  /\ phase \in {"starting", "running", "stopping"}
  /\ OnErrorRetry(listening, autoRestart, kind) => timers < MaxTimers
  /\ phase' = "errored"
  /\ errorText' = ErrorMsg(kind)
  /\ LET retry == OnErrorRetry(listening, autoRestart, kind)
     IN /\ timers' = IF retry THEN timers + 1 ELSE timers
        /\ lastOp' = Op("onerror", kind, listening, FALSE, FALSE, retry,
                        "none", pausedByHide,
                        IF retry THEN RetryDelay ELSE 0, FALSE, FALSE, "none")
  /\ stopBy' = "none"
  /\ UNCHANGED <<recognition, lang, mediaStream, liveStreams, pendingMic,
                 listening, autoRestart, hidden, pausedByHide, startDisabled,
                 stopDisabled, status,
                 transcripts, interimText, finalText>>

\* recognition.onresult, lines 54-79, run on event ev; recorded is what the
\* handler run leaves in lastOp.event
HandleResult(ev, recorded) ==
  /\ phase \in {"running", "stopping"}
  /\ LET c == Collect(ev.results, ev.resultIndex, <<>>, <<>>)
     IN /\ Appends(c.final) => Len(transcripts) < MaxTranscripts
        /\ interimText' = InterimShown(c)
        /\ finalText' = IF Appends(c.final) THEN c.final ELSE finalText
        /\ transcripts' =
             IF Appends(c.final)
             THEN Append(transcripts, [text |-> c.final, lang |-> lang])
             ELSE transcripts
        /\ lastOp' = Op("onresult", "none", listening, FALSE, FALSE, FALSE,
                        "none", FALSE, 0, Appends(c.final),
                        c.interim # <<>>, recorded)
  /\ UNCHANGED <<recognition, lang, mediaStream, liveStreams, pendingMic,
                 listening, autoRestart, hidden, pausedByHide, startDisabled,
                 stopDisabled, status, errorText, phase, stopBy, timers>>

EngineResult(ev) == HandleResult(ev, "none")

\* the callback of setTimeout, line 50
RetryTimerFires ==
  /\ timers > 0
  /\ timers' = timers - 1
  /\ phase' = AfterStart(phase)
  /\ lastOp' = Op("timer", "none", listening, TRUE, StartThrows(phase), FALSE, "none", pausedByHide, 0, FALSE, FALSE, "none")
  /\ UNCHANGED <<recognition, lang, mediaStream, liveStreams, pendingMic,
                 listening, autoRestart, hidden, pausedByHide, startDisabled,
                 stopDisabled, status, errorText, stopBy,
                 transcripts, interimText, finalText>>

\* ----------------------------------------------------------- user input
\* what startCaptions() and stopCaptions() read and write
Page ==
  [listening |-> listening, mediaStream |-> mediaStream,
   liveStreams |-> liveStreams, phase |-> phase, stopBy |-> stopBy,
   startDisabled |-> startDisabled, stopDisabled |-> stopDisabled,
   status |-> status, errorText |-> errorText, finalText |-> finalText,
   interimText |-> interimText, transcripts |-> transcripts,
   timers |-> timers]

\* startCaptions() before the await, lines 98-101
StartClearsTranscripts(p) ==
  [p EXCEPT !.errorText = "", !.finalText = <<>>, !.interimText = <<>>,
            !.transcripts = <<>>,
            !.status = "Initializing microphone..."]

StartClears(p) ==
  [p EXCEPT !.errorText = "", !.finalText = <<>>, !.interimText = <<>>,
            !.status = "Initializing microphone..."]

\* stopCaptions(), lines 126-136
StopCaptionsClearingError(p) ==
  [p EXCEPT !.listening = FALSE,
            !.phase = AfterStop(p.phase),
            !.stopBy = IF StopActs(p.phase) THEN "user" ELSE p.stopBy,
            !.mediaStream = FALSE,
            !.liveStreams = IF p.mediaStream THEN p.liveStreams - 1
                            ELSE p.liveStreams,
            !.startDisabled = FALSE,
            !.stopDisabled = TRUE,
            !.errorText = "",
            !.status = "Stopped"]

StopCaptions(p) ==
  [p EXCEPT !.listening = FALSE,
            !.phase = AfterStop(p.phase),
            !.stopBy = IF StopActs(p.phase) THEN "user" ELSE p.stopBy,
            !.mediaStream = FALSE,
            !.liveStreams = IF p.mediaStream THEN p.liveStreams - 1
                            ELSE p.liveStreams,
            !.startDisabled = FALSE,
            !.stopDisabled = TRUE,
            !.status = "Stopped"]

\* startBtn click -> startCaptions() up to the await, lines 89-91, 97-105
StartClick ==
  /\ ~hidden
  /\ ~startDisabled
  /\ pendingMic < MaxPending
  /\ pendingMic + liveStreams < MaxStreams
  /\ \E p \in {StartClears(Page)} :
        /\ errorText' = p.errorText
        /\ finalText' = p.finalText
        /\ interimText' = p.interimText
        /\ transcripts' = p.transcripts
        /\ status' = p.status
  /\ pendingMic' = pendingMic + 1
  /\ lastOp' = Op("startClick", "none", listening, FALSE, FALSE, FALSE,
                  "none", FALSE, 0, FALSE, FALSE, "none")
  /\ UNCHANGED <<recognition, lang, mediaStream, liveStreams, listening,
                 autoRestart, hidden, pausedByHide, startDisabled, stopDisabled,
                 phase, stopBy, timers>>

\* getUserMedia resolves: startCaptions() lines 105-107, 114-123
MicGranted ==
  /\ pendingMic > 0
  /\ liveStreams < MaxStreams
  /\ pendingMic' = pendingMic - 1
  /\ mediaStream' = TRUE
  /\ liveStreams' = liveStreams + 1
  /\ listening' = TRUE
  /\ startDisabled' = TRUE
  /\ stopDisabled' = FALSE
  /\ status' = "Listening..."
  /\ phase' = AfterStart(phase)
  /\ errorText' = IF StartThrows(phase) THEN StartFailedMsg ELSE errorText
  /\ lastOp' = Op("micGranted", "none", listening, TRUE, StartThrows(phase),
                  FALSE, "none", FALSE, 0, FALSE, FALSE, "none")
  /\ UNCHANGED <<recognition, lang, autoRestart, hidden, pausedByHide, stopBy,
                 timers,
                 transcripts, interimText, finalText>>

\* getUserMedia rejects: startCaptions() lines 108-112
MicDenied ==
  /\ pendingMic > 0
  /\ pendingMic' = pendingMic - 1
  /\ errorText' = MicDeniedMsg
  /\ status' = "Idle"
  /\ lastOp' = Op("micDenied", "none", listening, FALSE, FALSE, FALSE,
                  "none", FALSE, 0, FALSE, FALSE, "none")
  /\ UNCHANGED <<recognition, lang, mediaStream, liveStreams, listening,
                 autoRestart, hidden, pausedByHide, startDisabled, stopDisabled,
                 phase, stopBy, timers,
                 transcripts, interimText, finalText>>

\* stopBtn click -> stopCaptions(), lines 93-95, 126-136
StopClick ==
  /\ ~hidden
  /\ ~stopDisabled
  /\ \E p \in {StopCaptions(Page)} :
        /\ listening' = p.listening
        /\ phase' = p.phase
        /\ stopBy' = p.stopBy
        /\ mediaStream' = p.mediaStream
        /\ liveStreams' = p.liveStreams
        /\ startDisabled' = p.startDisabled
        /\ stopDisabled' = p.stopDisabled
        /\ status' = p.status
        /\ errorText' = p.errorText
        /\ transcripts' = p.transcripts
        /\ timers' = p.timers
  /\ lastOp' = Op("stopClick", "none", listening, FALSE, FALSE, FALSE,
                  "none", FALSE, 0, FALSE, FALSE, "none")
  /\ UNCHANGED <<recognition, lang, pendingMic, autoRestart, hidden,
                 pausedByHide, interimText, finalText>>

\* langSelect change, lines 30-32, 81-87
LangChange(l) ==
  /\ ~hidden
  /\ l # lang
  /\ lang' = l
  /\ phase' = IF listening THEN AfterStop(phase) ELSE phase
  /\ stopBy' = IF listening /\ StopActs(phase) THEN "lang" ELSE stopBy
  /\ lastOp' = Op("langChange", "none", listening, FALSE, FALSE, FALSE,
                  "none", FALSE, 0, FALSE, FALSE, "none")
  /\ UNCHANGED <<recognition, mediaStream, liveStreams, pendingMic, listening,
                 autoRestart, hidden, pausedByHide, startDisabled, stopDisabled,
                 status, errorText, timers,
                 transcripts, interimText, finalText>>

\* the user ticks or unticks the auto-restart checkbox (read at lines 41, 49)
ToggleAutoRestart ==
  /\ ~hidden
  /\ autoRestart' = ~autoRestart
  /\ lastOp' = Op("toggle", "none", listening, FALSE, FALSE, FALSE,
                  "none", FALSE, 0, FALSE, FALSE, "none")
  /\ UNCHANGED <<recognition, lang, mediaStream, liveStreams, pendingMic,
                 listening, hidden, pausedByHide, startDisabled, stopDisabled,
                 status, errorText, phase, stopBy, timers,
                 transcripts, interimText, finalText>>

\* document visibilitychange, lines 153-157
VisibilityChange ==
  /\ hidden' = ~hidden
  /\ LET hideBranch == hidden' /\ listening
     IN /\ phase' = IF hideBranch THEN AfterStop(phase) ELSE phase
        /\ stopBy' = IF hideBranch /\ StopActs(phase) THEN "hide" ELSE stopBy
        /\ pausedByHide' = hideBranch
  /\ lastOp' = Op(IF hidden' THEN "hide" ELSE "show", "none", listening, FALSE,
                  FALSE, FALSE, "none", pausedByHide, 0, FALSE, FALSE, "none")
  /\ UNCHANGED <<recognition, lang, mediaStream, liveStreams, pendingMic,
                 listening, autoRestart, startDisabled, stopDisabled, status,
                 errorText, timers,
                 transcripts, interimText, finalText>>

\* ------------------------------------------------------------------ Next
Next ==
  \/ EngineStarted
  \/ EngineEnded
  \/ \E kind \in ErrorKinds : EngineError(kind)
  \/ \E ev \in LeanEvents : EngineResult(ev)
  \/ RetryTimerFires
  \/ StartClick
  \/ MicGranted
  \/ MicDenied
  \/ StopClick
  \/ \E l \in Langs : LangChange(l)
  \/ ToggleAutoRestart
  \/ VisibilityChange

Spec == Init /\ [][Next]_vars

\* what the platform guarantees: a starting engine starts, a stopped or
\* failed engine fires 'ended', an armed timer fires.  Nothing obliges the
\* engine to produce results or to end by itself, nor the user to act.
Fairness ==
  /\ WF_vars(EngineStarted)
  /\ WF_vars(EngineEnded /\ phase \in {"stopping", "errored"})
  /\ WF_vars(RetryTimerFires)

FairSpec == Init /\ [][Next]_vars /\ Fairness

\* a session that is listening with an engine running in language l (the
\* state after StartClick, MicGranted, EngineStarted)
ListeningIn(l) ==
  /\ recognition = 1
  /\ lang = l
  /\ mediaStream = TRUE
  /\ liveStreams = 1
  /\ pendingMic = 0
  /\ listening = TRUE
  /\ autoRestart \in BOOLEAN
  /\ hidden = FALSE
  /\ pausedByHide = FALSE
  /\ startDisabled = TRUE
  /\ stopDisabled = FALSE
  /\ status = "Listening..."
  /\ errorText = ""
  /\ phase = "running"
  /\ stopBy = "none"
  /\ timers = 0
  /\ transcripts = <<>>
  /\ interimText = <<>>
  /\ finalText = <<>>
  /\ lastOp = Op("onstart", "none", TRUE, FALSE, FALSE, FALSE, "none", FALSE,
                 0, FALSE, FALSE, "none")

\* the language the session of ResultSpec was started in: recognition.lang
\* is read by the start() that begins a session (the languages are
\* interchangeable, so one of them is taken)
SessionLang == "en-US"

\* one engine session, started in SessionLang and not restarted, receiving
\* every result event while the user may change the language
ResultInit == ListeningIn(SessionLang)

ResultNext ==
  \/ \E ev \in ResultEvents : EngineResult(ev)
  \/ \E l \in Langs : LangChange(l)

ResultSpec == ResultInit /\ [][ResultNext]_vars

\* the result handler applied once to each result event, the event recorded
CollectNext ==
  \E ev \in ResultEvents : lastOp.op # "onresult" /\ HandleResult(ev, ev)

CollectInit == \E l \in Langs : ListeningIn(l)

CollectSpec == CollectInit /\ [][CollectNext]_vars

TypeOK ==
  /\ recognition \in Nat
  /\ lang \in Langs
  /\ mediaStream \in BOOLEAN
  /\ liveStreams \in 0..(MaxStreams + 1)
  /\ pendingMic \in 0..(MaxPending + 1)
  /\ listening \in BOOLEAN
  /\ autoRestart \in BOOLEAN
  /\ hidden \in BOOLEAN
  /\ phase \in {"idle", "starting", "running", "stopping", "errored"}
  /\ timers \in 0..(MaxTimers + 1)

\* ---------------------------------------------------------------- claims

\* C1: no engine start is issued at a moment when listening is false,
\* whatever timers are still pending (a retry timer armed while listening
\* and firing after stop() must not start the engine).
C1_NoStartWhileNotListening == lastOp.startIssued => listening

\* C2: after the error handler ran for a permission-class error
\* (not-allowed, permission-denied) the session is stopped: listening is
\* false and no restart timer was armed.
C2_PermissionErrorStops ==
  (lastOp.op = "onerror" /\ lastOp.kind \in {"not-allowed", "permission-denied"})
    => (~listening /\ ~lastOp.timerArmed)

\* C3: an 'ended' event or an error event of any kind handled while
\* listening is false issues no engine start and arms no timer.
C3_NoRestartWhenNotListening ==
  (lastOp.op \in {"onend", "onerror"} /\ ~lastOp.listeningAtEntry)
    => (~lastOp.startIssued /\ ~lastOp.timerArmed)

C3_Witness ==
  /\ lastOp.op = "onerror"
  /\ ~lastOp.listeningAtEntry
  /\ lastOp.kind \in RetryErrors
  /\ autoRestart
  /\ ~lastOp.timerArmed

\* C4: an 'ended' event handled while listening with auto-restart enabled
\* sets the status to Restarting and issues a start on the engine, which
\* takes effect (the engine is starting when the handler returns).
C4_EndRestarts ==
  (lastOp.op = "onend" /\ lastOp.listeningAtEntry /\ autoRestart)
    => /\ status = "Restarting..."
       /\ lastOp.startIssued
       /\ ~lastOp.startThrew
       /\ phase = "starting"

C4_Witness ==
  /\ lastOp.op = "onend"
  /\ lastOp.listeningAtEntry
  /\ autoRestart
  /\ lastOp.startIssued
  /\ phase = "starting"

\* C5: when a start call issued inside a restart path (end handling, retry
\* timer) throws, the handler replaces the engine instance by a new one.
C5_RecreateOnFailedRestart ==
  [][(lastOp'.op \in {"onend", "timer"} /\ lastOp'.startThrew)
       => recognition' # recognition]_vars

\* C6: between a hide event handled while listening and the next
\* visibility-restored event, neither end handling nor a retry timer
\* issues an engine start.
C6_PausedWhileHidden ==
  pausedByHide => ~(lastOp.op \in {"onend", "timer"} /\ lastOp.startIssued)

\* C7: when the page was hidden while listening and becomes visible again
\* with listening still true, the session is not left with an ended engine
\* and nothing armed to start it.
C7_ResumeOnShow ==
  (lastOp.op = "show" /\ lastOp.wasPausedByHide /\ listening)
    => ~(phase = "idle" /\ timers = 0)

\* C8: the 'ended' event produced by the stop of a language change, handled
\* while listening, starts the engine again.
C8_LangChangeRestarts ==
  (lastOp.op = "onend" /\ lastOp.endCause = "lang" /\ lastOp.listeningAtEntry)
    => lastOp.startIssued

\* C9: in no reachable state is listening true while the engine has ended
\* (or was never started) and no restart timer is armed.
C9_ListeningHasEngine == listening => ~(phase = "idle" /\ timers = 0)

\* C10: an 'ended' event that does not restart the engine publishes status
\* Stopped; Restarting is published only when a start is issued.
C10_EndStatus ==
  (lastOp.op = "onend" /\ ~lastOp.startIssued) => status = "Stopped"

\* C11: a restart issued by end handling is scheduled with the delay
\* min(500 * (consecutiveFailures + 1), 3000) ms: whatever the number of
\* consecutive failures, one of 500, 1000, ..., 3000 and never more than 3000.
C11_EndDelay ==
  (lastOp.op = "onend" /\ lastOp.startIssued)
    => lastOp.delay \in
         {BackoffDelay(EndBaseDelay, EndDelayCap, n) : n \in 0..MaxFailures}

\* C12: a restart armed by error handling has the delay
\* min(1000 * (consecutiveFailures + 1), 5000) ms: 1000 ms after the first
\* error, growing with each further one and never more than 5000.
C12_ErrorDelay ==
  (lastOp.op = "onerror" /\ lastOp.timerArmed)
    => lastOp.delay \in
         {BackoffDelay(ErrorBaseDelay, ErrorDelayCap, n) : n \in 0..MaxFailures}

\* C13: every error kind outside the permission class, handled while
\* listening with auto-restart enabled, arms a delayed restart.
C13_NonPermissionErrorsRetried ==
  (/\ lastOp.op = "onerror"
   /\ lastOp.listeningAtEntry
   /\ autoRestart
   /\ lastOp.kind \notin {"not-allowed", "permission-denied"})
    => lastOp.timerArmed

\* C14: the engine instance is replaced on each periodic-refresh tick while
\* listening: a session that keeps listening does not keep the instance it
\* has for ever.
C14_PeriodicRefresh ==
  \A i \in {1} :
    (listening /\ recognition = i) ~> (~listening \/ recognition # i)

\* C15: a silent stall is recovered: when listening with a running engine,
\* either the engine produces an event (result, end, error), or the session
\* is stopped, or eventually a start is issued for the stalled session.
C15_StallRecovered ==
  (listening /\ phase = "running" /\ ~lastOp.startIssued)
    ~> \/ ~listening
       \/ phase # "running"
       \/ lastOp.op = "onresult"
       \/ lastOp.startIssued

\* C16: while auto-restart is disabled, end handling and error handling
\* issue no start and arm no timer, and a retry timer that fires does not
\* start the engine.
C16_NoRestartWhenAutoOff ==
  /\ (lastOp.op \in {"onend", "onerror"} /\ ~autoRestart)
       => (~lastOp.startIssued /\ ~lastOp.timerArmed)
  /\ (lastOp.op = "timer" /\ ~autoRestart)
       => (lastOp.startThrew /\ phase # "starting")

\* C17: after stop() no acquired microphone stream is left unreleased.
C17_MicReleasedOnStop == lastOp.op = "stopClick" => liveStreams = 0

\* C18: when microphone acquisition is denied, status is Idle, the error is
\* the permission message, listening is false, no start was issued and no
\* microphone handle is held.
C18_MicDenied ==
  lastOp.op = "micDenied"
    => /\ status = "Idle"
       /\ errorText = MicDeniedMsg
       /\ ~listening
       /\ ~lastOp.startIssued
       /\ ~mediaStream

\* C19: immediately after an engine 'started' event the status is Listening
\* and the error message is cleared: no engine error of an earlier restart
\* cycle is still shown.
C19_StartClearsError ==
  lastOp.op = "onstart"
    => /\ status = "Listening..."
       /\ errorText \notin {ErrorMsg(kind) : kind \in ErrorKinds}

\* C20: no transcript entry has empty text; a result event that appends an
\* entry appends its non-empty final string and leaves the interim line
\* empty, even if the event carried non-final entries; an event with an
\* empty final string appends nothing.
C20_NonEmptyEntriesInterimCleared ==
  /\ \A i \in 1..Len(transcripts) : transcripts[i].text # <<>>
  /\ (lastOp.op = "onresult" /\ lastOp.appended)
       => /\ interimText = <<>>
          /\ finalText # <<>>
          /\ transcripts # <<>>
          /\ transcripts[Len(transcripts)].text = finalText

C20_Witness ==
  /\ lastOp.op = "onresult"
  /\ lastOp.appended
  /\ lastOp.hadInterim
  /\ interimText = <<>>
  /\ Len(transcripts) = MaxTranscripts

\* C21: stop() is idempotent: in a state where the session is already
\* stopped (listening false, microphone handle released, status Stopped),
\* running stopCaptions() again leaves listening, the microphone handle and
\* streams, the status, the error message and the transcript as they are
\* and arms no timer.
C21_StopIdempotent ==
  (~listening /\ ~mediaStream /\ status = "Stopped")
    => \A p \in {StopCaptions(Page)} :
          /\ p.listening = listening
          /\ p.mediaStream = mediaStream
          /\ p.liveStreams = liveStreams
          /\ p.status = status
          /\ p.errorText = errorText
          /\ p.transcripts = transcripts
          /\ p.timers = timers

\* stop() has just run on a session with an error shown, an entry in the
\* transcript and a retry timer pending
C21_Witness ==
  /\ lastOp.op = "stopClick"
  /\ lastOp.listeningAtEntry
  /\ ~listening
  /\ ~mediaStream
  /\ status = "Stopped"
  /\ errorText # ""
  /\ transcripts # <<>>
  /\ timers > 0
  /\ StopCaptions(Page).timers = timers

RECURSIVE JoinSpaces(_)
JoinSpaces(ts) ==
  IF ts = <<>> THEN <<>>
  ELSE IF Len(ts) = 1 THEN ts[1]
  ELSE ts[1] \o <<" ">> \o JoinSpaces(Tail(ts))

\* a sequence of texts without the empty texts it begins with
RECURSIVE DropLeadingEmpty(_)
DropLeadingEmpty(ts) ==
  IF ts # <<>> /\ Head(ts) = <<>> THEN DropLeadingEmpty(Tail(ts)) ELSE ts

\* C23, as stated: for the entries from resultIndex on, the final string is
\* the texts of the finalized entries joined by single spaces and the
\* interim string is the texts of the non-final entries joined by single
\* spaces; the event appends at most one entry, whose text is that final
\* string (nothing is appended when the final string is empty, and then
\* the interim line shows the interim string).
C23_SpaceJoined ==
  lastOp.op = "onresult"
    => LET ev == lastOp.event
           finals == JoinSpaces(TextsOf(ev.results, ev.resultIndex, TRUE))
           interims == JoinSpaces(TextsOf(ev.results, ev.resultIndex, FALSE))
       IN /\ Len(transcripts) <= 1
          /\ lastOp.appended
               => /\ transcripts # <<>>
                  /\ transcripts[Len(transcripts)].text = finals
          /\ ~lastOp.appended => (finals = <<>> /\ interimText = interims)

\* C23, amended: for the entries from resultIndex on, the final string is
\* the texts of the finalized entries joined by single spaces after the
\* empty texts before the first non-empty one are dropped, and the interim
\* string is the texts of the non-final entries joined by single spaces
\* and trimmed; the event appends at most one entry, exactly when that
\* final string is non-empty, and its text is that final string.
C23_JoinedWithoutLeadingEmpty ==
  lastOp.op = "onresult"
    => LET ev == lastOp.event
           finals ==
             JoinSpaces(DropLeadingEmpty(
               TextsOf(ev.results, ev.resultIndex, TRUE)))
           interims ==
             Trim(JoinSpaces(TextsOf(ev.results, ev.resultIndex, FALSE)))
       IN /\ Len(transcripts) <= 1
          /\ lastOp.appended <=> finals # <<>>
          /\ lastOp.appended
               => /\ transcripts # <<>>
                  /\ transcripts[Len(transcripts)].text = finals
                  /\ finalText = finals
          /\ ~lastOp.appended => interimText = interims

\* an event whose two entries are both final and non-empty, taken from
\* resultIndex 0, has been handled
C23_Witness ==
  /\ lastOp.op = "onresult"
  /\ lastOp.appended
  /\ lastOp.event.resultIndex = 0
  /\ Len(lastOp.event.results) = MaxResults
  /\ \A i \in 1..MaxResults :
       /\ lastOp.event.results[i].isFinal
       /\ Trim(lastOp.event.results[i].transcript) # <<>>
  /\ Len(transcripts[1].text) > MaxResults

\* C24: a termination of the engine while listening with auto-restart
\* enabled leads to one start call only: the restart of end handling and
\* the delayed retry of error handling do not both call start, so no start
\* of a restart path is issued on (and thrown by) an engine that is
\* already starting or running.
C24_OneStartPerTermination ==
  (/\ lastOp.op \in {"onend", "timer"}
   /\ lastOp.startIssued
   /\ lastOp.listeningAtEntry
   /\ autoRestart)
    => ~(lastOp.startThrew /\ phase \in {"starting", "running"})

\* C25: an entry records the language of the engine session that finalized
\* it: every entry of the session of ResultSpec carries the language that
\* session was started with, also when the user has selected another
\* language since (the engine has not restarted).
C25_EntryHasSessionLang ==
  \A i \in 1..Len(transcripts) : transcripts[i].lang = SessionLang

====
